---- MODULE Spec2Model ----
(***************************************************************************)
(* Calendar aggregator: the GET /events handler of src/server.js and the   *)
(* GET /wall handler of src/unnamed/part_000.                              *)
(*                                                                         *)
(* A JavaScript string is a sequence of one-character strings, so that     *)
(* concatenation, ordering and parsing are computed character by           *)
(* character. JavaScript's undefined is the one-element sequence           *)
(* Undefined, which is no string of the program.                           *)
(*                                                                         *)
(* The handlers share nothing but process.env, so one request is followed  *)
(* at a time: it arrives, its fetches settle in any order, it is answered. *)
(* A calendar answers every events.list call as it answered the first.     *)
(* localeCompare is the root collation of the Intl implementation Node     *)
(* ships; TZ is the default zone at its standard offset.                   *)
(*                                                                         *)
(* Spec follows both handlers over every configuration. The same handlers  *)
(* are followed by WallSpec over events around midnight, by WindowSpec     *)
(* over the values of the days parameter, by PartialSpec over items that   *)
(* lack fields, and by LiveSpec with every fetch settling in the end.      *)
(***************************************************************************)
EXTENDS Integers, Sequences, FiniteSets, Bags, TLC

\* ------------------------------------------------------------------ bounds
\* longest configured calendar id list
MaxCalendars == 2
\* most items one events.list answer carries
MaxItems == 1

\* ----------------------------------------------------------------- strings
Undefined == <<"#undefined">>
EmptyString == <<>>

\* JavaScript truthiness of a string-or-undefined value
Truthy(v) == v # Undefined /\ v # EmptyString

\* a || b on string-or-undefined values
OrElse(a, b) == IF Truthy(a) THEN a ELSE b

\* String(v), as a template literal applies it
ToStr(v) == IF v = Undefined THEN <<"u","n","d","e","f","i","n","e","d">> ELSE v

DigitChar == <<"0","1","2","3","4","5","6","7","8","9">>
IsDigit(c) == c \in {"0","1","2","3","4","5","6","7","8","9"}
DigitVal(c) == CHOOSE n \in 0..9 : DigitChar[n + 1] = c
Pad2(n) == <<DigitChar[(n \div 10) + 1], DigitChar[(n % 10) + 1]>>
Pad4(n) == Pad2(n \div 100) \o Pad2(n % 100)
Num2(s, i) == 10 * DigitVal(s[i]) + DigitVal(s[i + 1])
AllDigits(s, from, to) == \A i \in from..to : IsDigit(s[i])

\* UTF-16 code unit of the characters that occur in the model's strings
CodeUnit(c) ==
    CASE c = "+" -> 43 [] c = "-" -> 45 [] c = "." -> 46
      [] IsDigit(c) -> 48 + DigitVal(c)
      [] c = ":" -> 58
      [] c = "T" -> 84 [] c = "Z" -> 90
      [] c = "a" -> 97 [] c = "b" -> 98 [] c = "c" -> 99

\* primary collation weight of the same characters in the root collation
\* that String.prototype.localeCompare uses: punctuation, then symbols,
\* then digits, then letters
CollationWeight(c) ==
    CASE c = "-" -> 1 [] c = ":" -> 2 [] c = "." -> 3
      [] c = "+" -> 4
      [] IsDigit(c) -> 5 + DigitVal(c)
      [] c = "a" -> 15 [] c = "b" -> 16 [] c = "c" -> 17
      [] c = "T" -> 18 [] c = "Z" -> 19

\* three-way comparison of two strings, character by character under the
\* weight w; a proper prefix is smaller
RECURSIVE CompareBy(_, _, _, _)
CompareBy(w(_), s, t, i) ==
    IF i > Len(s) /\ i > Len(t) THEN 0
    ELSE IF i > Len(s) THEN -1
    ELSE IF i > Len(t) THEN 1
    ELSE IF w(s[i]) < w(t[i]) THEN -1
    ELSE IF w(s[i]) > w(t[i]) THEN 1
    ELSE CompareBy(w, s, t, i + 1)

\* a.localeCompare(b)
localeCompare(a, b) == CompareBy(CollationWeight, a, b, 1)

\* a <= b by code units (the relational operators of the language)
LexLeq(a, b) == CompareBy(CodeUnit, a, b, 1) <= 0

\* ------------------------------------------------------------ calendar dates
\* the zone of TZ (America/New_York outside daylight saving), in minutes
ZoneOffsetMinutes == -300

IsLeap(y) == (y % 4 = 0 /\ y % 100 # 0) \/ y % 400 = 0
YearLen(y) == IF IsLeap(y) THEN 366 ELSE 365
DaysInMonth(y, m) ==
    IF m = 2 THEN (IF IsLeap(y) THEN 29 ELSE 28)
    ELSE IF m \in {4, 6, 9, 11} THEN 30 ELSE 31

\* days from 2024-01-01 to the given date
RECURSIVE YearStart(_)
YearStart(y) ==
    IF y = 2024 THEN 0
    ELSE IF y > 2024 THEN YearStart(y - 1) + YearLen(y - 1)
    ELSE YearStart(y + 1) - YearLen(y)

RECURSIVE MonthStart(_, _)
MonthStart(y, m) == IF m = 1 THEN 0 ELSE MonthStart(y, m - 1) + DaysInMonth(y, m - 1)

ToEpochDay(y, m, d) == YearStart(y) + MonthStart(y, m) + (d - 1)

RECURSIVE MonthWalk(_, _, _)
MonthWalk(y, m, n) ==
    IF n >= DaysInMonth(y, m) THEN MonthWalk(y, m + 1, n - DaysInMonth(y, m))
    ELSE [year |-> y, month |-> m, day |-> n + 1]

RECURSIVE FromEpochDay(_, _)
FromEpochDay(y, n) ==
    IF n < 0 THEN FromEpochDay(y - 1, n + YearLen(y - 1))
    ELSE IF n >= YearLen(y) THEN FromEpochDay(y + 1, n - YearLen(y))
    ELSE MonthWalk(y, 1, n)

\* a DateTime: an instant as the wall-clock minute it shows at the offset
\* `offset` (minutes east of UTC), or the invalid DateTime
InvalidDateTime ==
    [isValid |-> FALSE, year |-> 0, month |-> 0, day |-> 0, minute |-> 0, offset |-> 0]
MakeDateTime(y, m, d, min, off) ==
    [isValid |-> TRUE, year |-> y, month |-> m, day |-> d, minute |-> min, offset |-> off]

\* the same instant shown at another offset (setZone, toUTC)
AtOffset(dt, off) ==
    IF ~dt.isValid THEN dt
    ELSE LET total == ToEpochDay(dt.year, dt.month, dt.day) * 1440 + dt.minute
                      - dt.offset + off
             dayNo == IF total >= 0 THEN total \div 1440 ELSE -((-total + 1439) \div 1440)
             date  == FromEpochDay(2024, dayNo)
         IN  MakeDateTime(date.year, date.month, date.day, total - dayNo * 1440, off)

setZone(dt) == AtOffset(dt, ZoneOffsetMinutes)
toUTC(dt) == AtOffset(dt, 0)

\* dt.plus({ days }): the same wall-clock time so many calendar days on
plusDays(dt, days) ==
    LET date == FromEpochDay(2024, ToEpochDay(dt.year, dt.month, dt.day) + days)
    IN  MakeDateTime(date.year, date.month, date.day, dt.minute, dt.offset)

\* dt.toISODate()
toISODate(dt) ==
    Pad4(dt.year) \o <<"-">> \o Pad2(dt.month) \o <<"-">> \o Pad2(dt.day)

\* dt.toISO() of a DateTime in UTC
toISO(dt) ==
    toISODate(dt) \o <<"T">> \o Pad2(dt.minute \div 60) \o <<":">>
      \o Pad2(dt.minute % 60) \o <<":","0","0",".","0","0","0","Z">>

\* dt.toFormat("h:mm a")
toFormatHMMA(dt) ==
    LET h   == dt.minute \div 60
        h12 == ((h + 11) % 12) + 1
    IN  (IF h12 < 10 THEN <<DigitChar[h12 + 1]>> ELSE Pad2(h12))
          \o <<":">> \o Pad2(dt.minute % 60) \o <<" ">>
          \o (IF h < 12 THEN <<"A","M">> ELSE <<"P","M">>)

\* the date part YYYY-MM-DD of s, starting at character 1, is well formed
DatePartOk(s) ==
    /\ AllDigits(s, 1, 4) /\ s[5] = "-" /\ AllDigits(s, 6, 7) /\ s[8] = "-"
    /\ AllDigits(s, 9, 10)
    /\ Num2(s, 6) \in 1..12
    /\ Num2(s, 9) \in 1..DaysInMonth(100 * Num2(s, 1) + Num2(s, 3), Num2(s, 6))

\* the time part THH:MM:SS of s, characters 11..19, is well formed
TimePartOk(s) ==
    /\ s[11] = "T" /\ AllDigits(s, 12, 13) /\ s[14] = ":" /\ AllDigits(s, 15, 16)
    /\ s[17] = ":" /\ AllDigits(s, 18, 19)
    /\ Num2(s, 12) < 24 /\ Num2(s, 15) < 60 /\ Num2(s, 18) < 60

\* the offset part of s, characters 20.., is Z or +HH:MM or -HH:MM
OffsetPartOk(s) ==
    \/ Len(s) = 20 /\ s[20] = "Z"
    \/ /\ Len(s) = 25 /\ s[20] \in {"+", "-"} /\ AllDigits(s, 21, 22)
       /\ s[23] = ":" /\ AllDigits(s, 24, 25)

OffsetOf(s) ==
    IF Len(s) = 20 THEN 0
    ELSE (IF s[20] = "-" THEN -1 ELSE 1) * (60 * Num2(s, 21) + Num2(s, 24))

\* DateTime.fromISO(text, { zone: TZ }) on the forms the calendar API emits:
\* YYYY-MM-DD, YYYY-MM-DDTHH:MM:SSZ and YYYY-MM-DDTHH:MM:SS+HH:MM; undefined
\* and every other text are unparsable
fromISO(text) ==
    IF text = Undefined THEN InvalidDateTime
    ELSE IF Len(text) = 10 /\ DatePartOk(text)
      THEN MakeDateTime(100 * Num2(text, 1) + Num2(text, 3), Num2(text, 6),
                        Num2(text, 9), 0, ZoneOffsetMinutes)
    ELSE IF Len(text) \in {20, 25} /\ DatePartOk(text) /\ TimePartOk(text)
            /\ OffsetPartOk(text)
      THEN setZone(MakeDateTime(100 * Num2(text, 1) + Num2(text, 3), Num2(text, 6),
                                Num2(text, 9),
                                60 * Num2(text, 12) + Num2(text, 15), OffsetOf(text)))
    ELSE InvalidDateTime

\* ---------------------------------------------------------- query and config
\* a JavaScript number: an integer or NaN
NaN == [nan |-> TRUE, v |-> 0]
Number(n) == [nan |-> FALSE, v |-> n]

RECURSIVE DigitsPrefix(_, _, _)
DigitsPrefix(s, i, acc) ==
    IF i <= Len(s) /\ IsDigit(s[i]) THEN DigitsPrefix(s, i + 1, 10 * acc + DigitVal(s[i]))
    ELSE acc

\* parseInt(s, 10): an optional sign, then the longest prefix of digits
parseInt(s) ==
    LET neg   == Len(s) >= 1 /\ s[1] = "-"
        first == IF Len(s) >= 1 /\ s[1] \in {"-", "+"} THEN 2 ELSE 1
    IN  IF first > Len(s) \/ ~IsDigit(s[first]) THEN NaN
        ELSE Number((IF neg THEN -1 ELSE 1) * DigitsPrefix(s, first, 0))

\* Math.min(x, cap)
MathMin(x, cap) == IF x.nan THEN NaN ELSE Number(IF x.v < cap THEN x.v ELSE cap)

\* Math.min(parseInt(req.query.days || dflt, 10), cap)
EffectiveDays(query, dflt, cap) == MathMin(parseInt(OrElse(query, dflt)), cap)

\* s.split(",")
RECURSIVE SplitComma(_, _, _)
SplitComma(s, i, cur) ==
    IF i > Len(s) THEN <<cur>>
    ELSE IF s[i] = "," THEN <<cur>> \o SplitComma(s, i + 1, <<>>)
    ELSE SplitComma(s, i + 1, Append(cur, s[i]))

\* s.trim()
RECURSIVE Trim(_)
Trim(s) ==
    IF s = <<>> THEN s
    ELSE IF Head(s) = " " THEN Trim(Tail(s))
    ELSE IF s[Len(s)] = " " THEN Trim(SubSeq(s, 1, Len(s) - 1))
    ELSE s

\* seq.filter(keep)
RECURSIVE Filter(_, _)
Filter(keep(_), seq) ==
    IF seq = <<>> THEN <<>>
    ELSE (IF keep(Head(seq)) THEN <<Head(seq)>> ELSE <<>>) \o Filter(keep, Tail(seq))

\* getCalendarIds(): the id list, or <<>> where the code throws
getCalendarIds(idsVar, idVar) ==
    LET parts == SplitComma(OrElse(idsVar, EmptyString), 1, <<>>)
        ids   == Filter(Truthy, [i \in 1..Len(parts) |-> Trim(parts[i])])
    IN  IF Len(ids) = 0 /\ Truthy(idVar) THEN <<Trim(idVar)>> ELSE ids

MsgMissingCalendarIds ==
    <<"M","i","s","s","i","n","g"," ","G","O","O","G","L","E","_","C","A","L","E","N","D","A","R","_","I","D","S">>
MsgMissingCredentials ==
    <<"M","i","s","s","i","n","g"," ","G","O","O","G","L","E","_","S","E","R","V","I","C","E","_","A","C","C","O","U","N","T","_","J","S","O","N">>
MsgUnexpectedEnd ==
    <<"U","n","e","x","p","e","c","t","e","d"," ","e","n","d"," ","o","f"," ","J","S","O","N"," ","i","n","p","u","t">>
MsgInvalidUnit ==
    <<"I","n","v","a","l","i","d"," ","u","n","i","t"," ","v","a","l","u","e"," ","N","a","N">>
MsgUnknownError == <<"u","n","k","n","o","w","n"," ","e","r","r","o","r">>
NoTitle == <<"(","n","o"," ","t","i","t","l","e",")">>
AllDayLabel == <<"A","l","l"," ","d","a","y">>

\* ------------------------------------------------------------ normalization
\* the start or end of an item that has none; a start or end that is there
\* but holds neither field is not told from it
NoTime == [date |-> Undefined, dateTime |-> Undefined]

\* the TypeError a property read on undefined throws, in the place of the
\* value read
TypeError == <<"#TypeError">>
MsgTypeError ==
    <<"C","a","n","n","o","t"," ","r","e","a","d"," ","p","r","o","p","e","r","t","i","e","s",
      " ","o","f"," ","u","n","d","e","f","i","n","e","d">>

\* obj.field
PlainField(obj, field) == IF obj = NoTime THEN TypeError ELSE obj[field]

\* obj?.field
OptionalField(obj, field) == IF obj = NoTime THEN Undefined ELSE obj[field]

\* e.start?.dateTime || e.start?.date
StartOf(e) == OrElse(OptionalField(e.start, "dateTime"), OptionalField(e.start, "date"))
EndOf(e) == OrElse(OptionalField(e.end, "dateTime"), OptionalField(e.end, "date"))

\* the callback of items.map throws on the item e
NormalizeThrows(e) ==
    TypeError \in {OptionalField(e.start, "dateTime"), OptionalField(e.end, "dateTime")}

\* all-day told by the emitted start being there
AllDayByStart(e) == Truthy(StartOf(e))

\* Boolean(e.start?.date)
IsAllDay(e) == Truthy(OptionalField(e.start, "date"))

\* the provider id alone, as the single-calendar handler has it
ProviderIdOnly(calendarId, id) == ToStr(id)

\* `${calendarId}:${e.id}`
CanonicalId(calendarId, id) == calendarId \o <<":">> \o ToStr(id)

\* the event object the /events handler builds from one item
normalizeEvent(calendarId, e) ==
    [sourceCalendarId |-> calendarId,
     id          |-> CanonicalId(calendarId, e.id),
     title       |-> OrElse(e.summary, NoTitle),
     location    |-> OrElse(e.location, EmptyString),
     description |-> OrElse(e.description, EmptyString),
     allDay      |-> IsAllDay(e),
     start       |-> StartOf(e),
     end         |-> EndOf(e)]

formatEventTime(startIso, allDay) ==
    IF allDay THEN AllDayLabel
    ELSE LET dt == fromISO(startIso)
         IN  IF dt.isValid THEN toFormatHMMA(dt) ELSE EmptyString

\* the event object the /wall handler builds from one item
normalizeWall(calendarId, e) ==
    [sourceCalendarId |-> calendarId,
     id          |-> CanonicalId(calendarId, e.id),
     title       |-> OrElse(e.summary, NoTitle),
     allDay      |-> IsAllDay(e),
     start       |-> StartOf(e),
     end         |-> EndOf(e),
     displayTime |-> formatEventTime(StartOf(e), IsAllDay(e))]

\* ------------------------------------------------------------------ merging
\* the sort comparator: (a.start || "").localeCompare(b.start || "")
CompareStart(a, b) ==
    localeCompare(OrElse(a.start, EmptyString), OrElse(b.start, EmptyString))

\* an insertion that drops x when an element with an equal start is there
RECURSIVE InsertUnique(_, _)
InsertUnique(sorted, x) ==
    IF sorted = <<>> THEN <<x>>
    ELSE IF CompareStart(Head(sorted), x) = 0 THEN sorted
    ELSE IF CompareStart(Head(sorted), x) > 0 THEN <<x>> \o sorted
    ELSE <<Head(sorted)>> \o InsertUnique(Tail(sorted), x)

\* x put behind the last element that does not compare greater than it
RECURSIVE InsertSorted(_, _)
InsertSorted(sorted, x) ==
    IF sorted = <<>> THEN <<x>>
    ELSE IF CompareStart(Head(sorted), x) > 0 THEN <<x>> \o sorted
    ELSE <<Head(sorted)>> \o InsertSorted(Tail(sorted), x)

\* the sort left out
Unsorted(seq) == seq

\* Array.prototype.sort with the comparator above: a stable sort
RECURSIVE SortByStart(_)
SortByStart(seq) ==
    IF seq = <<>> THEN <<>>
    ELSE InsertSorted(SortByStart(SubSeq(seq, 1, Len(seq) - 1)), seq[Len(seq)])

\* seq.flatMap(f)
RECURSIVE FlatMap(_, _)
FlatMap(f(_), seq) ==
    IF seq = <<>> THEN <<>> ELSE f(Head(seq)) \o FlatMap(f, Tail(seq))

\* seq.map(f)
Map(f(_), seq) == [i \in 1..Len(seq) |-> f(seq[i])]

\* -------------------------------------------------------------- environment
TZ == <<"A","m","e","r","i","c","a","/","N","e","w","_","Y","o","r","k">>
EventsDefaultDays == <<"3","0">>
EventsMaxDays == 365
WallDefaultDays == <<"1","0">>
WallMaxDays == 60

\* the calendars of the provider
CalA == <<"a">>
CalAB == <<"a",":","b">>
CalendarPool == {CalA, CalAB}

SeqsUpTo(S, n) == UNION {[1..k -> S] : k \in 0..n}

\* ids joined by commas, as GOOGLE_CALENDAR_IDS holds them
RECURSIVE JoinComma(_)
JoinComma(ids) ==
    IF ids = <<>> THEN <<>>
    ELSE IF Len(ids) = 1 THEN ids[1]
    ELSE ids[1] \o <<",">> \o JoinComma(Tail(ids))

\* values of GOOGLE_CALENDAR_IDS: unset, lists of up to MaxCalendars ids, and
\* a list of blanks
CalendarIdsVars ==
    {Undefined, <<" ",","," ">>, <<" ","a"," ",",">>}
      \cup {JoinComma(ids) : ids \in SeqsUpTo(CalendarPool, MaxCalendars)}

\* values of the legacy GOOGLE_CALENDAR_ID
CalendarIdVars == {Undefined, CalAB}

\* values of GOOGLE_SERVICE_ACCOUNT_JSON: unset, a key, a truncated key
CredentialVars == {Undefined, <<"{","}">>, <<"{">>}

Environments ==
    {e \in [GOOGLE_SERVICE_ACCOUNT_JSON : CredentialVars,
            GOOGLE_CALENDAR_IDS : CalendarIdsVars,
            GOOGLE_CALENDAR_ID : CalendarIdVars] :
        \* the legacy variable matters only where the list is empty
        e.GOOGLE_CALENDAR_ID = Undefined
          \/ getCalendarIds(e.GOOGLE_CALENDAR_IDS, Undefined) = <<>>}

\* ----------------------------------------------------------------- provider
Day15 == <<"2","0","2","4","-","0","1","-","1","5">>
Nine == <<"T","0","9",":","0","0",":","0","0">>
Ten == <<"T","1","0",":","0","0",":","0","0">>

\* a timed event of a calendar kept at UTC-5
RawTimedWest ==
    [id |-> <<"c">>, summary |-> <<"a">>, location |-> <<"b">>, description |-> Undefined,
     start |-> [date |-> Undefined, dateTime |-> Day15 \o Nine \o <<"-","0","5",":","0","0">>],
     end   |-> [date |-> Undefined, dateTime |-> Day15 \o Ten \o <<"-","0","5",":","0","0">>]]
\* a timed event of a calendar kept at UTC+1
RawTimedEast ==
    [id |-> <<"b",":","c">>, summary |-> <<"b">>, location |-> Undefined,
     description |-> <<"c">>,
     start |-> [date |-> Undefined, dateTime |-> Day15 \o Nine \o <<"+","0","1",":","0","0">>],
     end   |-> NoTime]
\* an all-day event
RawAllDay ==
    [id |-> <<"c">>, summary |-> Undefined, location |-> Undefined, description |-> Undefined,
     start |-> [date |-> Day15, dateTime |-> Undefined],
     end   |-> [date |-> <<"2","0","2","4","-","0","1","-","1","6">>, dateTime |-> Undefined]]
\* an item without start and end
RawNoStart ==
    [id |-> <<"b">>, summary |-> EmptyString, location |-> Undefined,
     description |-> Undefined, start |-> NoTime, end |-> NoTime]

RawEvents == {RawTimedWest, RawTimedEast, RawAllDay, RawNoStart}

MsgNotFound == <<"N","o","t"," ","F","o","u","n","d">>
MsgForbidden == <<"F","o","r","b","i","d","d","e","n">>
MsgRateLimit == <<"R","a","t","e"," ","L","i","m","i","t">>

\* what calendar.events.list settles with: resp.data, or an error
NoItems == [kind |-> "calendar#events"]
WithItems(items) == [kind |-> "calendar#events", items |-> items]
Success(data) == [ok |-> TRUE, data |-> data, message |-> Undefined]
Failure(message) == [ok |-> FALSE, data |-> NoItems, message |-> message]

\* resp.data.items || []
ItemsOf(data) == IF "items" \in DOMAIN data THEN data.items ELSE <<>>
\* an answer lists an event once
NoRepeat(items) == \A i, j \in 1..Len(items) : items[i] = items[j] => i = j
\* the error a calendar fails with, each calendar in its own way
FailureOf(calendarId) ==
    Failure(IF calendarId = CalA THEN MsgNotFound
            ELSE IF calendarId = CalAB THEN MsgForbidden ELSE MsgRateLimit)
ItemListsOf(raw) == {q \in SeqsUpTo(raw, MaxItems) : NoRepeat(q)}
ItemLists == ItemListsOf(RawEvents)
\* the answers a calendar holding the events raw can give
OutcomesOf(calendarId, raw) ==
    {Success(WithItems(items)) : items \in ItemListsOf(raw)}
      \cup {Success(NoItems), FailureOf(calendarId)}
Outcomes(calendarId) == OutcomesOf(calendarId, RawEvents)

\* ------------------------------------------------------------------ requests
\* values of the days query parameter
DaysQueries == {Undefined, <<"a","b","c">>}

\* values of DateTime.now().setZone(TZ)
Clock == {MakeDateTime(2024, 1, 15, 1410, ZoneOffsetMinutes)}

\* --------------------------------------------------------------------- state
VARIABLES
    env,         \* process.env, fixed when the process starts
    feed,        \* what the provider answers for each calendar asked so far
    pc,          \* where the handler of the request stands
    request,     \* the request being handled: route, days query, time of arrival
    locals,      \* the handler's constants: days, timeMin, timeMax, calendarIds
    listCalls,   \* the calendarId of each calendar.events.list call issued for
                 \* the request, all with the timeMin and timeMax of locals
    settled,     \* the promises handed to Promise.allSettled, by position
    completion,  \* the positions in the order their promises settled
    response,    \* what res.json was called with
    last         \* an earlier exchange of the same request whose promises settled
                 \* in the order of their positions, kept for comparison

vars == <<env, feed, pc, request, locals, listCalls, settled, completion, response, last>>

NoRequest == [route |-> "none", days |-> Undefined, now |-> InvalidDateTime]
NoLocals == [days |-> NaN, timeMin |-> Undefined, timeMax |-> Undefined,
             calendarIds |-> <<>>]
NoResponse == [status |-> 0]
NoLast == [request |-> NoRequest, response |-> NoResponse]
Pending == [status |-> "pending"]

\* the process is up and no request has come
Fresh ==
    /\ feed = <<>>
    /\ pc = "idle"
    /\ request = NoRequest
    /\ locals = NoLocals
    /\ listCalls = <<>>
    /\ settled = <<>>
    /\ completion = <<>>
    /\ response = NoResponse
    /\ last = NoLast

Init == env \in Environments /\ Fresh

\* ------------------------------------------------------------------ handlers
\* a client built without looking at the key
getJwtClientUnchecked(json) == Undefined

\* JSON.parse accepts the text of an object
JsonParses(text) == Len(text) >= 2 /\ text[1] = "{" /\ text[Len(text)] = "}"

\* getJwtClient(): the message it throws with, or Undefined
getJwtClient(json) ==
    IF ~Truthy(json) THEN MsgMissingCredentials
    ELSE IF ~JsonParses(json) THEN MsgUnexpectedEnd
    ELSE Undefined

\* the handler up to Promise.allSettled: the constants it computes, or the
\* message of the first exception thrown on the way
Preflight(e, query, now, dflt, cap) ==
    LET days == EffectiveDays(query, dflt, cap)
        ids  == getCalendarIds(e.GOOGLE_CALENDAR_IDS, e.GOOGLE_CALENDAR_ID)
    IN  IF days.nan THEN [threw |-> TRUE, message |-> MsgInvalidUnit]
        ELSE IF getJwtClient(e.GOOGLE_SERVICE_ACCOUNT_JSON) # Undefined
          THEN [threw |-> TRUE,
                message |-> getJwtClient(e.GOOGLE_SERVICE_ACCOUNT_JSON)]
        ELSE IF ids = <<>> THEN [threw |-> TRUE, message |-> MsgMissingCalendarIds]
        ELSE [threw |-> FALSE, message |-> Undefined,
              locals |-> [days |-> days,
                          timeMin |-> toISO(toUTC(now)),
                          timeMax |-> toISO(toUTC(plusDays(now, days.v))),
                          calendarIds |-> ids]]

\* res.status(500).json({ error: err.message || String(err) })
ErrorResponse(message) == [status |-> 500, body |-> [error |-> message]]

\* a request arrives and its handler runs to the await, or to the catch
Receive(route, query, now, dflt, cap) ==
    LET pre == Preflight(env, query, now, dflt, cap) IN
    /\ pc = "idle"
    /\ last.request \in {NoRequest, [route |-> route, days |-> query, now |-> now]}
    /\ request' = [route |-> route, days |-> query, now |-> now]
    /\ IF pre.threw
         THEN /\ pc' = "responded"
              /\ response' = ErrorResponse(pre.message)
              /\ UNCHANGED <<locals, listCalls, settled>>
         ELSE /\ pc' = "awaiting"
              /\ locals' = pre.locals
              /\ listCalls' = pre.locals.calendarIds
              /\ settled' = [i \in 1..Len(pre.locals.calendarIds) |-> Pending]
              /\ UNCHANGED response
    /\ UNCHANGED <<env, feed, completion, last>>

GetEvents == \E query \in DaysQueries, now \in Clock :
    Receive("events", query, now, EventsDefaultDays, EventsMaxDays)

GetWall == \E query \in DaysQueries, now \in Clock :
    Receive("wall", query, now, WallDefaultDays, WallMaxDays)

\* the value one mapped async function returns for the answer of a calendar
FulfilledValue(route, calendarId, data) ==
    IF route = "events"
      THEN [calendarId |-> calendarId,
            events |-> Map(LAMBDA e : normalizeEvent(calendarId, e), ItemsOf(data))]
      ELSE Map(LAMBDA e : normalizeWall(calendarId, e), ItemsOf(data))

\* how the promise of one position settles, given the provider's answer:
\* rejected with the error of events.list or with what the async function
\* threw, else fulfilled with what it returned
SettleWith(route, calendarId, outcome) ==
    IF ~outcome.ok
      THEN [status |-> "rejected", reason |-> [message |-> outcome.message]]
    ELSE IF \E k \in 1..Len(ItemsOf(outcome.data)) : NormalizeThrows(ItemsOf(outcome.data)[k])
      THEN [status |-> "rejected", reason |-> [message |-> MsgTypeError]]
    ELSE [status |-> "fulfilled",
          value |-> FulfilledValue(route, calendarId, outcome.data)]

\* a fetch that is issued once more when it fails for the first time
SettleRetrying(i, raw) ==
    LET calendarId == locals.calendarIds[i] IN
    /\ pc = "awaiting"
    /\ settled[i].status = "pending"
    /\ \E outcome \in OutcomesOf(calendarId, raw) :
         /\ calendarId \in DOMAIN feed => outcome = feed[calendarId]
         /\ feed' = IF calendarId \in DOMAIN feed THEN feed
                    ELSE feed @@ (calendarId :> outcome)
         /\ IF ~outcome.ok /\ Len(listCalls) = Len(locals.calendarIds)
              THEN /\ listCalls' = Append(listCalls, calendarId)
                   /\ UNCHANGED <<settled, completion>>
              ELSE /\ settled' = [settled EXCEPT
                                    ![i] = SettleWith(request.route, calendarId, outcome)]
                   /\ completion' = Append(completion, i)
                   /\ UNCHANGED listCalls
    /\ UNCHANGED <<env, pc, request, locals, response, last>>

\* the events.list call of position i answers and its async function ends;
\* a calendar answers every call as it answered the first
SettleFrom(i, raw) ==
    LET calendarId == locals.calendarIds[i] IN
    /\ pc = "awaiting"
    /\ settled[i].status = "pending"
    /\ \E outcome \in OutcomesOf(calendarId, raw) :
         /\ calendarId \in DOMAIN feed => outcome = feed[calendarId]
         /\ feed' = IF calendarId \in DOMAIN feed THEN feed
                    ELSE feed @@ (calendarId :> outcome)
         /\ settled' = [settled EXCEPT
                          ![i] = SettleWith(request.route, calendarId, outcome)]
    /\ completion' = Append(completion, i)
    /\ UNCHANGED <<env, pc, request, locals, listCalls, response, last>>

Settle(i) == SettleFrom(i, RawEvents)

\* Promise.all in the place of Promise.allSettled: rejected with the first
\* rejection, fulfilled with the values once every promise is fulfilled
PromiseAllState(promises) ==
    IF \E i \in 1..Len(promises) : promises[i].status = "rejected"
      THEN [status |-> "rejected",
            reason |-> promises[CHOOSE i \in 1..Len(promises) :
                                   promises[i].status = "rejected"].reason]
    ELSE IF \E i \in 1..Len(promises) : promises[i].status = "pending"
      THEN [status |-> "pending"]
    ELSE [status |-> "fulfilled", value |-> promises]

\* results collected as the promises settle, not by position
CompletionOrderState(promises) ==
    IF \E i \in 1..Len(promises) : promises[i].status = "pending"
      THEN [status |-> "pending"]
      ELSE [status |-> "fulfilled",
            value |-> [k \in 1..Len(promises) |-> promises[completion[k]]]]

\* a combinator that waits until every promise is fulfilled
AllFulfilledState(promises) ==
    IF \E i \in 1..Len(promises) : promises[i].status # "fulfilled"
      THEN [status |-> "pending"]
      ELSE [status |-> "fulfilled", value |-> promises]

\* the state of the promise Promise.allSettled returns
AllSettledState(promises) ==
    IF \E i \in 1..Len(promises) : promises[i].status = "pending"
      THEN [status |-> "pending"]
      ELSE [status |-> "fulfilled", value |-> promises]

IsRejected(r) == r.status = "rejected"
IsFulfilled(r) == r.status = "fulfilled"

\* String(r.reason?.message || r.reason || "unknown error")
ReasonText(r) == OrElse(r.reason.message, MsgUnknownError)

\* the distinct messages only
RECURSIVE Distinct(_)
Distinct(seq) ==
    IF seq = <<>> THEN <<>>
    ELSE LET rest == Distinct(SubSeq(seq, 1, Len(seq) - 1))
         IN  IF \E i \in 1..Len(rest) : rest[i] = seq[Len(seq)] THEN rest
             ELSE Append(rest, seq[Len(seq)])
ErrorsDistinct(results) == Distinct(Map(ReasonText, Filter(IsRejected, results)))

\* settled.filter(rejected).map(message)
Errors(results) == Map(ReasonText, Filter(IsRejected, results))

\* settled.filter(fulfilled).map(value)
Fulfilled(results) == Map(LAMBDA r : r.value, Filter(IsFulfilled, results))

\* fulfilled.flatMap(events).sort(by start), of the /events handler
MergeEvents(fulfilled) == SortByStart(FlatMap(LAMBDA x : x.events, fulfilled))

\* settled.filter(fulfilled).flatMap(value).sort(by start), of the /wall handler
MergeWall(results) == SortByStart(FlatMap(LAMBDA r : r.value, Filter(IsFulfilled, results)))

EventsBody(l, results) ==
    LET fulfilled == Fulfilled(results)
        events    == MergeEvents(fulfilled)
    IN  [timezone |-> TZ,
         calendarsRequested |-> l.calendarIds,
         calendarsSucceeded |-> Map(LAMBDA f : f.calendarId, fulfilled),
         errors |-> Errors(results),
         range |-> [days |-> l.days, timeMin |-> l.timeMin, timeMax |-> l.timeMax],
         count |-> Len(events),
         events |-> events]

\* the date as the start text has it, whatever the zone
StartKeyText(e) ==
    IF e.start = Undefined THEN EmptyString
    ELSE SubSeq(e.start, 1, IF Len(e.start) < 10 THEN Len(e.start) ELSE 10)

\* the key of the day an event starts on, "" where the start does not parse
StartKey(e) ==
    LET startDt == fromISO(e.start)
    IN  IF startDt.isValid THEN toISODate(startDt) ELSE EmptyString

\* the body of the loop with unshift in the place of push
UnshiftTo(buckets, e, todayKey) ==
    IF StartKey(e) = todayKey
      THEN [buckets EXCEPT !.today = <<e>> \o @]
      ELSE [buckets EXCEPT !.upcoming = <<e>> \o @]

\* the body of the loop over events: e is pushed to today or to upcoming
PushTo(buckets, e, todayKey) ==
    IF StartKey(e) = todayKey
      THEN [buckets EXCEPT !.today = Append(@, e)]
      ELSE [buckets EXCEPT !.upcoming = Append(@, e)]

\* today and upcoming after the loop over events
RECURSIVE SplitByDay(_, _)
SplitByDay(events, todayKey) ==
    IF events = <<>> THEN [today |-> <<>>, upcoming |-> <<>>]
    ELSE PushTo(SplitByDay(SubSeq(events, 1, Len(events) - 1), todayKey),
                events[Len(events)], todayKey)

\* the object handed to res.json, given the merged events
WallReport(l, now, results, events) ==
    LET todayKey == toISODate(now)
        buckets  == SplitByDay(events, todayKey)
    IN  [timezone |-> TZ,
         calendars |-> l.calendarIds,
         days |-> l.days,
         todayKey |-> todayKey,
         todayCount |-> Len(buckets.today),
         upcomingCount |-> Len(buckets.upcoming),
         today |-> buckets.today,
         upcoming |-> buckets.upcoming,
         errors |-> Errors(results)]

\* const events = ...sort(...): the merged list is computed once, then split
WallBody(l, now, results) ==
    CHOOSE body \in {WallReport(l, now, results, events) :
                        events \in {MergeWall(results)}} : TRUE

\* the await ends and the handler runs to res.json
Respond ==
    LET awaited == AllSettledState(settled) IN
    /\ pc = "awaiting"
    /\ awaited.status # "pending"
    /\ response' =
         IF awaited.status = "rejected" THEN ErrorResponse(awaited.reason.message)
         ELSE IF request.route = "events"
           THEN [status |-> 200, body |-> EventsBody(locals, awaited.value)]
           ELSE [status |-> 200, body |-> WallBody(locals, request.now, awaited.value)]
    /\ pc' = "responded"
    /\ UNCHANGED <<env, feed, request, locals, listCalls, settled, completion, last>>

\* the promises settled in the order of their positions
InRequestOrder(order) == \A k \in 1..Len(order) : order[k] = k

\* the exchange is over, its promises having settled in the order of
\* their positions; it is kept for comparison and the client is to send the
\* same request again
Repeat ==
    /\ pc = "responded"
    /\ InRequestOrder(completion)
    /\ last' = [request |-> request, response |-> response]
    /\ pc' = "idle"
    /\ request' = NoRequest
    /\ locals' = NoLocals
    /\ listCalls' = <<>>
    /\ settled' = <<>>
    /\ completion' = <<>>
    /\ response' = NoResponse
    /\ UNCHANGED <<env, feed>>

SettleSome == \E i \in 1..Len(settled) : Settle(i)

Next == GetEvents \/ GetWall \/ SettleSome \/ Respond \/ Repeat

Spec == Init /\ [][Next]_vars

\* ------------------------------------------------------------ the wall view
\* the wall view around midnight: a configuration that is complete, and
\* events that start on the day before, the day and the day after the
\* request, told in UTC, in the zone or as dates
Day16 == <<"2","0","2","4","-","0","1","-","1","6">>

\* 22:30 of the 15th in the zone
RawLateUtc ==
    [id |-> <<"a">>, summary |-> <<"a">>, location |-> Undefined, description |-> Undefined,
     start |-> [date |-> Undefined,
                dateTime |-> Day16 \o <<"T","0","3",":","3","0",":","0","0","Z">>],
     end   |-> NoTime]
\* 23:30 of the 14th in the zone
RawEarlyUtc ==
    [id |-> <<"b">>, summary |-> <<"b">>, location |-> Undefined, description |-> Undefined,
     start |-> [date |-> Undefined,
                dateTime |-> Day15 \o <<"T","0","4",":","3","0",":","0","0","Z">>],
     end   |-> NoTime]
\* the 16th, all day
RawAllDayNext ==
    [id |-> <<"c">>, summary |-> <<"c">>, location |-> Undefined, description |-> Undefined,
     start |-> [date |-> Day16, dateTime |-> Undefined],
     end   |-> NoTime]
\* a start that is no date of the calendar
RawBadStart ==
    [id |-> <<"a","b">>, summary |-> Undefined, location |-> Undefined,
     description |-> Undefined,
     start |-> [date |-> <<"2","0","2","4","-","0","2","-","3","0">>, dateTime |-> Undefined],
     end   |-> NoTime]

WallRawEvents ==
    {RawLateUtc, RawEarlyUtc, RawAllDay, RawAllDayNext, RawTimedEast, RawBadStart, RawNoStart}

WallClock ==
    {MakeDateTime(2024, 1, 15, 1410, ZoneOffsetMinutes),
     MakeDateTime(2024, 1, 16, 10, ZoneOffsetMinutes)}

WallEnvironments ==
    {[GOOGLE_SERVICE_ACCOUNT_JSON |-> <<"{","}">>,
      GOOGLE_CALENDAR_IDS |-> ids,
      GOOGLE_CALENDAR_ID |-> Undefined] : ids \in {CalA, JoinComma(<<CalA, CalAB>>)}}

InitWall == env \in WallEnvironments /\ Fresh

GetWallAtMidnight == \E now \in WallClock :
    Receive("wall", Undefined, now, WallDefaultDays, WallMaxDays)

SettleWall == \E i \in 1..Len(settled) : SettleFrom(i, WallRawEvents)

NextWall == GetWallAtMidnight \/ SettleWall \/ Respond \/ Repeat

WallSpec == InitWall /\ [][NextWall]_vars

\* ------------------------------------------------------------ the time window
\* both routes under values of the days query parameter: none, negative,
\* zero, within the caps, beyond them, digits followed by letters, letters
WindowQueries ==
    {Undefined, <<"-","5">>, <<"0">>, <<"7">>, <<"4","0","0">>, <<"7","a","b","c">>,
     <<"a","b","c">>}

WindowEnvironments ==
    {[GOOGLE_SERVICE_ACCOUNT_JSON |-> <<"{","}">>,
      GOOGLE_CALENDAR_IDS |-> CalA,
      GOOGLE_CALENDAR_ID |-> Undefined]}

InitWindow == env \in WindowEnvironments /\ Fresh

GetEventsWindow == \E query \in WindowQueries, now \in Clock :
    Receive("events", query, now, EventsDefaultDays, EventsMaxDays)

GetWallWindow == \E query \in WindowQueries, now \in Clock :
    Receive("wall", query, now, WallDefaultDays, WallMaxDays)

SettleWindow == \E i \in 1..Len(settled) : SettleFrom(i, {RawAllDay})

NextWindow == GetEventsWindow \/ GetWallWindow \/ SettleWindow \/ Respond \/ Repeat

WindowSpec == InitWindow /\ [][NextWindow]_vars

\* ------------------------------------------------------------------ progress
\* both routes where every fetch issued settles in the end and the handler
\* goes on once its await is over: configurations that are complete or lack
\* the credentials, a days value that is absent or not a number
LiveEnvironments ==
    {[GOOGLE_SERVICE_ACCOUNT_JSON |-> json,
      GOOGLE_CALENDAR_IDS |-> JoinComma(<<CalA, CalAB>>),
      GOOGLE_CALENDAR_ID |-> Undefined] : json \in {Undefined, <<"{","}">>}}

InitLive == env \in LiveEnvironments /\ Fresh

GetEventsLive == \E query \in DaysQueries, now \in Clock :
    Receive("events", query, now, EventsDefaultDays, EventsMaxDays)

GetWallLive == \E query \in DaysQueries, now \in Clock :
    Receive("wall", query, now, WallDefaultDays, WallMaxDays)

\* the fetch of position i, if the request has one, settles
SettleLive(i) == i \in 1..Len(settled) /\ SettleFrom(i, {RawAllDay})

SettleSomeLive == \E i \in 1..MaxCalendars : SettleLive(i)

NextLive == GetEventsLive \/ GetWallLive \/ SettleSomeLive \/ Respond \/ Repeat

LiveSpec ==
    /\ InitLive /\ [][NextLive]_vars
    /\ \A i \in 1..MaxCalendars : WF_vars(SettleLive(i))
    /\ WF_vars(Respond)

\* --------------------------------------------------------- partial records
\* both routes over items with any of summary, location, description, start
\* and end missing, the summary also empty
PartialEvents ==
    {[id |-> <<"c">>, summary |-> su, location |-> lo, description |-> de,
      start |-> st, end |-> en] :
        su \in {Undefined, EmptyString, <<"a">>},
        lo \in {Undefined, <<"b">>},
        de \in {Undefined, <<"c">>},
        st \in {NoTime, RawTimedWest.start},
        en \in {NoTime, RawTimedWest.end}}

GetEventsPartial == \E now \in Clock :
    Receive("events", Undefined, now, EventsDefaultDays, EventsMaxDays)

GetWallPartial == \E now \in Clock :
    Receive("wall", Undefined, now, WallDefaultDays, WallMaxDays)

SettlePartial == \E i \in 1..Len(settled) : SettleFrom(i, PartialEvents)

NextPartial == GetEventsPartial \/ GetWallPartial \/ SettlePartial \/ Respond \/ Repeat

PartialSpec == InitWindow /\ [][NextPartial]_vars

\* ------------------------------------------------------------------- claims
Responded == pc = "responded"
Succeeded == Responded /\ response.status = 200
Positions == 1..Len(settled)

RECURSIVE SeqBag(_)
SeqBag(seq) ==
    IF seq = <<>> THEN EmptyBag ELSE SetToBag({Head(seq)}) (+) SeqBag(Tail(seq))

\* the merged events of a success response, both buckets of the wall view
\* taken together
MergedEvents ==
    IF request.route = "events" THEN response.body.events
    ELSE response.body.today \o response.body.upcoming

\* the answer the provider gave for position i, and its items
AnswerAt(i) == feed[locals.calendarIds[i]]
ItemsAt(i) == ItemsOf(AnswerAt(i).data)

\* the normalized events position i owes the response
RECURSIVE OwedFrom(_)
OwedFrom(i) ==
    IF i > Len(locals.calendarIds) THEN EmptyBag
    ELSE (IF AnswerAt(i).ok
            THEN SeqBag(Map(LAMBDA e : IF request.route = "events"
                                         THEN normalizeEvent(locals.calendarIds[i], e)
                                         ELSE normalizeWall(locals.calendarIds[i], e),
                            ItemsAt(i)))
            ELSE EmptyBag) (+) OwedFrom(i + 1)

\* C1: a response to a request whose fetches were issued is sent only when
\* every one of them has settled, each with the answer of its own calendar
\* whatever became of the others
SettleAllBarrier ==
    (Responded /\ listCalls # <<>>) =>
       /\ Len(settled) = Len(listCalls)
       /\ \A i \in Positions :
             /\ settled[i].status \in {"fulfilled", "rejected"}
             /\ locals.calendarIds[i] \in DOMAIN feed
             /\ IsFulfilled(settled[i]) <=> AnswerAt(i).ok

\* a response sent after one fetch failed and another succeeded, the
\* promises having settled out of request order
BarrierWitness ==
    /\ Succeeded /\ Len(settled) >= 2
    /\ \E i, j \in Positions : IsRejected(settled[i]) /\ IsFulfilled(settled[j])
    /\ completion[1] # 1

\* C2: the merged events of a success response are, as a multiset, the
\* normalized events of the calendars that answered; nothing of a calendar
\* that failed is among them
NoEventLoss == Succeeded => SeqBag(MergedEvents) = OwedFrom(1)

\* a success response with events of one calendar while another failed
NoEventLossWitness ==
    /\ Succeeded /\ Len(MergedEvents) >= 1
    /\ \E i, j \in Positions : ~AnswerAt(i).ok /\ AnswerAt(j).ok /\ ItemsAt(j) # <<>>
    /\ completion[1] # 1

\* C3: /events reports one error for each fetch that failed and the id of
\* each fetch that succeeded, so the two lists add up to the request
FailuresAreData ==
    (Succeeded /\ request.route = "events") =>
       LET b == response.body IN
       /\ Len(b.errors) = Cardinality({i \in Positions : ~AnswerAt(i).ok})
       /\ SeqBag(b.errors)
            = SeqBag(Map(LAMBDA o : o.message,
                         Filter(LAMBDA o : ~o.ok, Map(LAMBDA c : feed[c], locals.calendarIds))))
       /\ SeqBag(b.calendarsSucceeded)
            = SeqBag(Filter(LAMBDA c : feed[c].ok, locals.calendarIds))
       /\ Len(b.errors) + Len(b.calendarsSucceeded) = Len(b.calendarsRequested)

\* an /events response where two fetches failed with the same message
FailuresAreDataWitness ==
    /\ Succeeded /\ request.route = "events"
    /\ \E i, j \in Positions :
         i # j /\ ~AnswerAt(i).ok /\ ~AnswerAt(j).ok
           /\ AnswerAt(i).message = AnswerAt(j).message

\* the start an event is sorted by: a.start || ""
SortKey(e) == OrElse(e.start, EmptyString)

\* every neighbouring pair of seq satisfies leq
Ascending(seq, leq(_, _)) == \A i \in 1..(Len(seq) - 1) : leq(seq[i], seq[i + 1])

\* the lists of a success response that the code sorted
SortedLists ==
    IF request.route = "events" THEN {response.body.events}
    ELSE {response.body.today, response.body.upcoming}

\* s is a date and t a date-time on that date
SameDayTimed(s, t) == Len(s) = 10 /\ Len(t) > 10 /\ SubSeq(t, 1, 10) = s

\* C4 as stated: neighbouring events of a response are in ascending order
\* of their start strings compared by code units, a missing start taken
\* as the empty string
SortedByCodeUnits ==
    Succeeded =>
       \A list \in SortedLists :
          Ascending(list, LAMBDA a, b : LexLeq(SortKey(a), SortKey(b)))

\* C4 amended: neighbouring events of a response are in ascending order of
\* their start strings under the collation of localeCompare, a missing
\* start taken as the empty string; an all-day start comes before every
\* timed start of the same date
SortedByCollation ==
    Succeeded =>
       \A list \in SortedLists :
          /\ Ascending(list, LAMBDA a, b : localeCompare(SortKey(a), SortKey(b)) <= 0)
          /\ \A i, j \in 1..Len(list) :
                SameDayTimed(SortKey(list[i]), SortKey(list[j])) => i < j

\* a response where the calendar listed second gave an all-day event and
\* the calendar listed first a timed event of that day
SortedWitness ==
    /\ Succeeded /\ Len(locals.calendarIds) >= 2
    /\ AnswerAt(1).ok /\ ItemsAt(1) # <<>> /\ AnswerAt(2).ok /\ ItemsAt(2) # <<>>
    /\ SameDayTimed(StartOf(ItemsAt(2)[1]), StartOf(ItemsAt(1)[1]))

\* C5: no event with a start comes after an event without one
MissingStartLast ==
    Succeeded =>
       \A list \in SortedLists :
          \A i, j \in 1..Len(list) :
             (list[i].start = Undefined /\ list[j].start # Undefined) => j < i

\* the positions whose fetch succeeded (ok) or failed, in the given order
PositionsWhere(order, ok) == Filter(LAMBDA i : AnswerAt(i).ok = ok, order)
RequestOrder == [i \in 1..Len(locals.calendarIds) |-> i]

\* the order calendarsSucceeded and errors would have if they followed order
SucceededIn(order) == Map(LAMBDA i : locals.calendarIds[i], PositionsWhere(order, TRUE))
ErrorsIn(order) == Map(LAMBDA i : AnswerAt(i).message, PositionsWhere(order, FALSE))

\* C6 as stated: calendarsSucceeded and errors list the calendars in the
\* order their fetches settled
CompletionOrdered ==
    Succeeded =>
       /\ response.body.errors = ErrorsIn(completion)
       /\ request.route = "events" =>
             response.body.calendarsSucceeded = SucceededIn(completion)

\* C6 amended: calendarsSucceeded and errors list the calendars in the
\* order of calendarsRequested, whatever the order their fetches settled in
RequestOrdered ==
    Succeeded =>
       /\ response.body.errors = ErrorsIn(RequestOrder)
       /\ request.route = "events" =>
             response.body.calendarsSucceeded = SucceededIn(RequestOrder)

\* an /events response for two different calendars that both answered, the
\* one listed second having settled first
RequestOrderedWitness ==
    /\ Succeeded /\ request.route = "events"
    /\ Len(locals.calendarIds) >= 2 /\ locals.calendarIds[1] # locals.calendarIds[2]
    /\ AnswerAt(1).ok /\ AnswerAt(2).ok
    /\ completion[1] = 2

\* the lists of events a success response carries
EventLists(r, route) ==
    IF route = "events" THEN <<r.body.events>> ELSE <<r.body.today, r.body.upcoming>>

\* C7: a request sent again, the provider answering as before, gets the
\* same events in the same order, whatever order the fetches settle in
Deterministic ==
    (Succeeded /\ last.request = request /\ last.response.status = 200) =>
       EventLists(response, request.route) = EventLists(last.response, request.route)

\* the same request answered twice, its fetches having settled in request
\* order the first time and out of it the second, with events of equal
\* start from two calendars
DeterministicWitness ==
    /\ Succeeded /\ last.request = request /\ last.response.status = 200
    /\ ~InRequestOrder(completion)
    /\ \E i, j \in 1..Len(MergedEvents) :
          /\ i # j
          /\ MergedEvents[i].sourceCalendarId # MergedEvents[j].sourceCalendarId
          /\ MergedEvents[i].start = MergedEvents[j].start

\* the configuration is invalid: no credentials, or no calendar id
ConfigurationMissing ==
    \/ ~Truthy(env.GOOGLE_SERVICE_ACCOUNT_JSON)
    \/ getCalendarIds(env.GOOGLE_CALENDAR_IDS, env.GOOGLE_CALENDAR_ID) = <<>>

\* C8: with the credentials or the calendar ids missing a request ends in
\* the top-level error alone and no events.list call is issued for it
ConfigurationPreflight ==
    ConfigurationMissing =>
       /\ pc \in {"idle", "responded"}
       /\ listCalls = <<>> /\ settled = <<>> /\ completion = <<>>
       /\ Responded => response.status = 500 /\ DOMAIN response.body = {"error"}

\* a request with a well-formed days value answered with the top-level
\* error because the credentials are missing though calendars are listed
PreflightWitness ==
    /\ Responded /\ response.status = 500
    /\ ~Truthy(env.GOOGLE_SERVICE_ACCOUNT_JSON)
    /\ getCalendarIds(env.GOOGLE_CALENDAR_IDS, env.GOOGLE_CALENDAR_ID) # <<>>
    /\ request.days = Undefined

\* C9: once the fetches of a request are issued its response has the
\* success shape however many of them fail; when all fail it has no events,
\* the count 0 and one error for each
SucceedsDespiteFailures ==
    (Responded /\ listCalls # <<>>) =>
       /\ response.status = 200
       /\ (\A i \in Positions : IsRejected(settled[i])) =>
             /\ MergedEvents = <<>>
             /\ response.body.errors # <<>>
             /\ Len(response.body.errors) = Len(listCalls)
             /\ request.route = "events" =>
                   response.body.count = 0 /\ response.body.calendarsSucceeded = <<>>
             /\ request.route = "wall" =>
                   response.body.todayCount = 0 /\ response.body.upcomingCount = 0

\* a response to a request all of whose fetches, two or more, failed
AllFailedWitness ==
    /\ Responded /\ Len(settled) >= 2
    /\ \A i \in Positions : IsRejected(settled[i])

\* s holds the separator of canonical ids
HasColon(s) == \E i \in 1..Len(s) : s[i] = ":"

\* the pairs of items of two different calendars whose events are in the
\* response
CrossPairs ==
    {p \in Positions \X Positions :
        /\ locals.calendarIds[p[1]] # locals.calendarIds[p[2]]
        /\ AnswerAt(p[1]).ok /\ AnswerAt(p[2]).ok}

ItemSet(i) == {ItemsAt(i)[k] : k \in 1..Len(ItemsAt(i))}

NormalizedAt(i, e) ==
    IF request.route = "events" THEN normalizeEvent(locals.calendarIds[i], e)
    ELSE normalizeWall(locals.calendarIds[i], e)

InResponse(ev) == \E k \in 1..Len(MergedEvents) : MergedEvents[k] = ev

\* C10 as stated: two events of a response that come from different
\* calendars have different canonical ids
GloballyUniqueIds ==
    Succeeded =>
       \A p \in CrossPairs : \A x \in ItemSet(p[1]), y \in ItemSet(p[2]) :
          (InResponse(NormalizedAt(p[1], x)) /\ InResponse(NormalizedAt(p[2], y)))
             => NormalizedAt(p[1], x).id # NormalizedAt(p[2], y).id

\* C10 amended: two events of a response that come from different calendars
\* have different canonical ids when their provider ids are equal, and
\* whenever neither provider id holds the separator ":"
UniqueIdsForSameLocalId ==
    Succeeded =>
       \A p \in CrossPairs : \A x \in ItemSet(p[1]), y \in ItemSet(p[2]) :
          (/\ InResponse(NormalizedAt(p[1], x)) /\ InResponse(NormalizedAt(p[2], y))
           /\ (x.id = y.id \/ (~HasColon(x.id) /\ ~HasColon(y.id))))
             => NormalizedAt(p[1], x).id # NormalizedAt(p[2], y).id

\* a response with events of two calendars that carry one provider id
UniqueIdsWitness ==
    /\ Succeeded
    /\ \E p \in CrossPairs : \E x \in ItemSet(p[1]), y \in ItemSet(p[2]) :
          /\ x.id = y.id
          /\ InResponse(NormalizedAt(p[1], x)) /\ InResponse(NormalizedAt(p[2], y))

\* the items an event of the response can stem from
StemsFrom(ev, i, x) == AnswerAt(i).ok /\ x \in ItemSet(i) /\ ev = NormalizedAt(i, x)

\* the provider start of x is date-only, a date-time, or not there
DateOnly(x) == Truthy(x.start.date) /\ ~Truthy(x.start.dateTime)
DateTimed(x) == Truthy(x.start.dateTime) /\ ~Truthy(x.start.date)
NoStart(x) == ~Truthy(x.start.date) /\ ~Truthy(x.start.dateTime)

\* C12: every event of a response stems from an item of its calendar, and
\* its allDay is true exactly when the provider start of that item was
\* date-only, in which case the emitted start is that date; it is false
\* exactly when the emitted start is the date-time of the item or absent
AllDayIffDateOnly ==
    Succeeded =>
       /\ \A k \in 1..Len(MergedEvents) :
             \E i \in Positions : \E x \in ItemSet(i) : StemsFrom(MergedEvents[k], i, x)
       /\ \A i \in Positions : \A x \in ItemSet(i) :
             AnswerAt(i).ok =>
                LET ev == NormalizedAt(i, x) IN
                /\ InResponse(ev)
                /\ DateOnly(x) \/ DateTimed(x) \/ NoStart(x)
                /\ ev.allDay <=> DateOnly(x)
                /\ ev.allDay <=> (ev.start # Undefined /\ ev.start = x.start.date)
                /\ ~ev.allDay <=>
                      (ev.start = Undefined
                         \/ (ev.start # Undefined /\ ev.start = x.start.dateTime))

\* a response that holds an all-day event next to a timed event, and one
\* that holds an event without start
AllDayWitness ==
    /\ Succeeded
    /\ \E j, k \in 1..Len(MergedEvents) :
          /\ MergedEvents[j].allDay /\ Len(MergedEvents[j].start) = 10
          /\ ~MergedEvents[k].allDay
          /\ MergedEvents[k].start # Undefined /\ Len(MergedEvents[k].start) > 10

\* sub occurs in s
Contains(s, sub) ==
    \E i \in 1..(Len(s) - Len(sub) + 1) : SubSeq(s, i, i + Len(sub) - 1) = sub

\* C13: each entry of errors carries the cause message of a fetch that
\* failed and the id of its calendar
ErrorsCarryCalendarId ==
    Succeeded =>
       LET failed == PositionsWhere(RequestOrder, FALSE) IN
       \A k \in 1..Len(response.body.errors) :
          /\ Contains(response.body.errors[k], AnswerAt(failed[k]).message)
          /\ Contains(response.body.errors[k], locals.calendarIds[failed[k]])

\* C14: a success response of either route has the fields
\* calendarsRequested, calendarsSucceeded and errors
BothModesReport ==
    Succeeded =>
       {"calendarsRequested", "calendarsSucceeded", "errors"} \subseteq DOMAIN response.body

\* C17: from the moment the fetches of a request are issued until its
\* response, the events.list calls made for it are one for each configured
\* calendar id in turn, whether settled or not and however they settled
NoRetry ==
    pc \in {"awaiting", "responded"} /\ settled # <<>> =>
       /\ listCalls = locals.calendarIds
       /\ Len(listCalls) = Len(settled)
       /\ \A c \in CalendarPool :
             Cardinality({k \in 1..Len(listCalls) : listCalls[k] = c})
               = Cardinality({i \in Positions : locals.calendarIds[i] = c})

\* a response to a request one of whose fetches failed, the calendar that
\* failed being configured once
NoRetryWitness ==
    /\ Responded /\ Len(settled) >= 2
    /\ \E i \in Positions :
          /\ IsRejected(settled[i])
          /\ \A j \in Positions : locals.calendarIds[j] = locals.calendarIds[i] => j = i

\* what the response is to show for the summary, location and description
\* of an item
TitleFor(x) == IF x.summary \in {Undefined, EmptyString} THEN NoTitle ELSE x.summary
TextFor(v) == IF v = Undefined THEN EmptyString ELSE v

\* the event ev shows the item x of the calendar at position i
Shows(ev, i, x) ==
    /\ ev.sourceCalendarId = locals.calendarIds[i]
    /\ ev.title = TitleFor(x)
    /\ ev.start = (IF x.start.dateTime # Undefined THEN x.start.dateTime ELSE x.start.date)
    /\ ev.end = (IF x.end.dateTime # Undefined THEN x.end.dateTime ELSE x.end.date)
    /\ request.route = "events" =>
          ev.location = TextFor(x.location) /\ ev.description = TextFor(x.description)

RECURSIVE ItemCountFrom(_)
ItemCountFrom(i) ==
    IF i > Len(locals.calendarIds) THEN 0
    ELSE (IF AnswerAt(i).ok THEN Len(ItemsAt(i)) ELSE 0) + ItemCountFrom(i + 1)

\* C18: whatever an item lacks of summary, location, description, start and
\* end, the fetch that brought it is fulfilled and the response shows it,
\* with the title "(no title)" for a missing or empty summary and "" for a
\* missing location or description; the response has one event for each
\* item
NormalizationTotal ==
    (Responded /\ listCalls # <<>>) =>
       /\ response.status = 200
       /\ Len(MergedEvents) = ItemCountFrom(1)
       /\ \A i \in Positions :
             AnswerAt(i).ok =>
                /\ IsFulfilled(settled[i])
                /\ \A x \in ItemSet(i) :
                      \E k \in 1..Len(MergedEvents) : Shows(MergedEvents[k], i, x)

\* an /events response showing an item that has nothing but its id
NormalizationWitness ==
    /\ Succeeded /\ request.route = "events"
    /\ \E i \in Positions : \E x \in ItemSet(i) :
          /\ x.summary = Undefined /\ x.location = Undefined /\ x.description = Undefined
          /\ x.start = NoTime /\ x.end = NoTime
          /\ \E k \in 1..Len(MergedEvents) :
                /\ MergedEvents[k].title = NoTitle
                /\ MergedEvents[k].location = EmptyString

SomePending == \E i \in Positions : settled[i].status = "pending"

\* C19: every fetch issued settling in the end, a request whose handler
\* awaits is answered in the end; the answer is the success shape or the
\* top-level error and, once sent, stays as it is until the exchange is
\* over; as long as a fetch has not settled no response is sent and none
\* can be
ResponseLiveness ==
    /\ (pc = "awaiting") ~> (pc = "responded")
    /\ [](Responded => response.status \in {200, 500})
    /\ [][response # NoResponse =>
             (response' = response \/ (response' = NoResponse /\ pc' = "idle"))]_vars
    /\ []((pc = "awaiting" /\ SomePending) =>
             (response = NoResponse /\ ~ENABLED Respond))

\* a response to a request that had fetches fail and fetches succeed
LivenessWitness ==
    /\ Responded /\ Len(settled) >= 2
    /\ \E i, j \in Positions : IsRejected(settled[i]) /\ IsFulfilled(settled[j])
    /\ response.status = 200

\* the cap of the route of the request in hand
CapOf(route) == IF route = "events" THEN EventsMaxDays ELSE WallMaxDays

\* C15: a request with any days value is handled with a number of days that
\* is at most the cap of its route and not below the least window, so that
\* the window sent to the provider has timeMin <= timeMax; no days value
\* fails the request
DaysClamped ==
    /\ (Responded /\ response.status = 500) => response.body.error # MsgInvalidUnit
    /\ listCalls # <<>> =>
          /\ ~locals.days.nan
          /\ locals.days.v <= CapOf(request.route)
          /\ LexLeq(locals.timeMin, locals.timeMax)

WallSucceeded == Succeeded /\ request.route = "wall"

\* the start text S names an instant or a date whose calendar date in the
\* zone is that of the DateTime T
SameZoneDate(S, T) ==
    /\ S # Undefined
    /\ fromISO(S).isValid
    /\ <<fromISO(S).year, fromISO(S).month, fromISO(S).day>> = <<T.year, T.month, T.day>>

\* C11: the events of today are those whose start has, in the zone, the
\* calendar date of the request time; those of upcoming are all the others,
\* the events without a start or with one that does not parse among them
PartitionByZoneDate ==
    WallSucceeded =>
       /\ \A k \in 1..Len(response.body.today) :
             SameZoneDate(response.body.today[k].start, request.now)
       /\ \A k \in 1..Len(response.body.upcoming) :
             ~SameZoneDate(response.body.upcoming[k].start, request.now)
       /\ \A ev \in {MergeWall(settled)[k] : k \in 1..Len(MergeWall(settled))} :
             /\ SameZoneDate(ev.start, request.now) =>
                   \E k \in 1..Len(response.body.today) : response.body.today[k] = ev
             /\ ~SameZoneDate(ev.start, request.now) =>
                   \E k \in 1..Len(response.body.upcoming) : response.body.upcoming[k] = ev

\* a wall response with an event of today whose start text has the date of
\* the next day, and in upcoming an event that has no start or one that
\* does not parse
PartitionWitness ==
    /\ WallSucceeded
    /\ \E k \in 1..Len(response.body.today) :
          SubSeq(response.body.today[k].start, 1, 10) # response.body.todayKey
    /\ \E k \in 1..Len(response.body.upcoming) :
          \/ response.body.upcoming[k].start = Undefined
          \/ ~fromISO(response.body.upcoming[k].start).isValid

\* sub is seq with some elements left out: the picks, ascending positions of
\* seq, give sub
IsSubsequence(sub, seq) ==
    \E picks \in SUBSET (1..Len(seq)) :
       /\ Cardinality(picks) = Len(sub)
       /\ \A k \in 1..Len(sub) :
             \E i \in picks :
                /\ Cardinality({j \in picks : j < i}) = k - 1
                /\ seq[i] = sub[k]

\* C16: today and upcoming split the merged list: their events together
\* are the merged events, each as often as merged, the two counts are their
\* lengths and add up to the number of merged events, and each bucket is
\* the merged list with the events of the other bucket left out
BucketsPartitionMerged ==
    WallSucceeded =>
       LET merged == MergeWall(settled)
           b      == response.body
       IN  /\ SeqBag(b.today) (+) SeqBag(b.upcoming) = SeqBag(merged)
           /\ b.todayCount = Len(b.today) /\ b.upcomingCount = Len(b.upcoming)
           /\ b.todayCount + b.upcomingCount = Len(merged)
           /\ IsSubsequence(b.today, merged) /\ IsSubsequence(b.upcoming, merged)
           /\ b.today = Filter(LAMBDA e : SameZoneDate(e.start, request.now), merged)
           /\ b.upcoming = Filter(LAMBDA e : ~SameZoneDate(e.start, request.now), merged)

\* a wall response with events in both buckets, the merged list beginning
\* with an event of upcoming that has a start
BucketsWitness ==
    /\ WallSucceeded
    /\ Len(response.body.today) >= 1 /\ Len(response.body.upcoming) >= 1
    /\ MergeWall(settled)[1] = response.body.upcoming[1]
    /\ response.body.upcoming[1].start # Undefined

====
